---- MODULE Spec2Model ----
(***************************************************************************)
(* A model of sys/directsound/gstdirectsoundsink.c: the DirectSound audio  *)
(* sink of gst-plugins-bad.  The sink owns a secondary DirectSound buffer  *)
(* that the hardware plays in a loop; gst_directsound_sink_write copies    *)
(* the stream into it behind the play cursor.                              *)
(*                                                                         *)
(* The session fields carry the names of the GstDirectSoundSink struct.    *)
(* The variables named hw* are the secondary buffer as the DirectSound     *)
(* API documents it: its bytes, its play cursor, its status bits and its   *)
(* volume.  DWORD and guint values are 32 bits wide; a value is held as    *)
(* its two's-complement representative, so that a subtraction that wraps   *)
(* yields a negative number that the unsigned comparisons below order      *)
(* above every non-negative one.                                           *)
(***************************************************************************)
EXTENDS Integers, Sequences, FiniteSets, TLC

(* ------------------------------ bounds --------------------------------- *)

\* The small sample rates the model configures are 1..MaxRate.
MaxRate == 4

\* The largest secondary buffer the modelled sound card grants, in bytes.
MaxHwBytes == 4

(* ------------------------- program constants --------------------------- *)

\* dsound.h: the smallest secondary buffer DirectSound creates.
DSBSIZE_MIN == 4

\* glib: the upper end of the pad template's rate range [ 1, MAX ].
G_MAXINT == 2147483647

\* The attenuation property's range is [-10000, 0]; the default is 0.
Attenuations == {-5000, 0}

\* The byte values the stream carries (0 is also what reset fills with).
ByteVals == {0, 1}

\* The pad template: 1 or 2 channels, width 8 or 16, rate [ 1, MAX ].
Channels == {1, 2}
Widths == {8, 16}
Rates == (1..MaxRate) \cup {1073741824, G_MAXINT}

(* --------------------------- 32-bit arithmetic ------------------------- *)

\* a < b as DWORDs.
ULt(a, b) ==
    \/ a >= 0 /\ b >= 0 /\ a < b
    \/ a >= 0 /\ b < 0
    \/ a < 0 /\ b < 0 /\ a < b

\* wfx.nAvgBytesPerSec = wfx.nSamplesPerSec * wfx.nBlockAlign, a DWORD
\* product, as its two 16-bit halves <<high, low>>.
nAvgBytesPerSec(nSamplesPerSec, nBlockAlign) ==
    LET al == nSamplesPerSec % 65536
        ah == nSamplesPerSec \div 65536
        lo == al * nBlockAlign
        hi == ah * nBlockAlign + (lo \div 65536)
    IN  <<hi % 65536, lo % 65536>>

\* dsoundsink->buffer_size = wfx.nAvgBytesPerSec / 2.
HalfSecond(avg) ==
    (avg[1] \div 2) * 65536 + (avg[1] % 2) * 32768 + (avg[2] \div 2)

\* The spec->bytes_per_sample of a format: channels * width / 8.
BytesPerSample(channels, width) == channels * (width \div 8)

(* ------------------------------- state --------------------------------- *)

VARIABLES
    \* GstDirectSoundSink
    pDSBSecondary,            \* "NULL", "live" or "released" (dangling)
    buffer_size,
    current_circular_offset,
    bytes_per_sample,
    attenuation,
    first_buffer_after_reset,
    dsound_lock,              \* "free", or the call that holds it
    \* the secondary DirectSound buffer
    hwBytes,                  \* its bytes, position p at index p + 1
    hwCursor,                 \* the play cursor
    hwPlaying,                \* DSBSTATUS_PLAYING
    hwLost,                   \* DSBSTATUS_BUFFERLOST
    hwVolume,
    hwPending,                \* positions written and not yet played
    \* the streaming thread inside gst_directsound_sink_write
    pc,                       \* "idle", "sleep", "copy", "wrap"
    w,                        \* the call's arguments and locals
    \* history
    last,                     \* the most recent step and what it returned
    lastRW                    \* the most recent of reset and write

session == <<pDSBSecondary, buffer_size, current_circular_offset,
             bytes_per_sample, attenuation, first_buffer_after_reset,
             dsound_lock>>
hw == <<hwBytes, hwCursor, hwPlaying, hwLost, hwVolume, hwPending>>
vars == <<session, hw, pc, w, last, lastRW>>

\* The frame of a write call that is not running.
NoWrite ==
    [length |-> 0, data |-> <<>>,
     dwStatus |-> [playing |-> FALSE, lost |-> FALSE],
     dwCurrentPlayCursor |-> 0,
     locked |-> FALSE, lockOffset |-> 0,
     dwSizeBuffer1 |-> 0, dwSizeBuffer2 |-> 0,
     offset0 |-> 0, moved |-> FALSE, playing0 |-> FALSE,
     flag0 |-> FALSE, checked |-> FALSE, polled |-> FALSE,
     played |-> FALSE, overwrote |-> FALSE]

\* What `last` holds after a step that returns nothing.  `fault` tells
\* that the step called a method of a buffer that was already released.
Did(op) ==
    [op |-> op, ret |-> 0, ok |-> TRUE, rate |-> 0, bps |-> 0,
     fault |-> FALSE]

\* The frame of the last write is kept until another step is taken.
Forget == IF pc = "idle" THEN NoWrite ELSE w

Init ==
    /\ pDSBSecondary = "NULL"
    /\ buffer_size = DSBSIZE_MIN
    /\ current_circular_offset = 0
    /\ bytes_per_sample = 0
    /\ attenuation = 0
    /\ first_buffer_after_reset = FALSE
    /\ dsound_lock = "free"
    /\ hwBytes = <<>>
    /\ hwCursor = 0
    /\ hwPlaying = FALSE
    /\ hwLost = FALSE
    /\ hwVolume = 0
    /\ hwPending = {}
    /\ pc = "idle"
    /\ w = NoWrite
    /\ last = Did("init")
    /\ lastRW = "none"

(* ------------------------- the DirectSound buffer ---------------------- *)

Min(a, b) == IF a < b THEN a ELSE b

\* IDirectSound_CreateSoundBuffer: DSERR_INVALIDPARAM for a size the card
\* does not offer; otherwise the card may still refuse.
CanCreate(dwBufferBytes) ==
    dwBufferBytes >= DSBSIZE_MIN /\ dwBufferBytes <= MaxHwBytes

\* IDirectSoundBuffer_Lock succeeds on a buffer that is not lost, for a
\* range that starts inside the buffer and is no longer than it
\* (DSERR_BUFFERLOST, DSERR_INVALIDPARAM otherwise).
LockSucceeds(bytes, lost, dwOffset, dwBytes) ==
    /\ ~lost
    /\ dwOffset >= 0 /\ dwOffset < Len(bytes)
    /\ dwBytes > 0 /\ dwBytes <= Len(bytes)

\* The first locked region runs from dwOffset to the end of the range or
\* of the buffer; the second is the rest, at the start of the buffer.
LockSize1(bytes, dwOffset, dwBytes) == Min(dwBytes, Len(bytes) - dwOffset)
LockSize2(bytes, dwOffset, dwBytes) ==
    dwBytes - LockSize1(bytes, dwOffset, dwBytes)

\* The positions of a locked range.
LockedPositions(bytes, dwOffset, dwBytes) ==
    {p \in 0..(Len(bytes) - 1) :
        \/ p >= dwOffset /\ p < dwOffset + LockSize1(bytes, dwOffset, dwBytes)
        \/ p < LockSize2(bytes, dwOffset, dwBytes)}

\* memcpy (dst + at, src + from, n) and memset (dst + at, 0, n).
memcpy(dst, at, src, from, n) ==
    [i \in 1..Len(dst) |->
        IF i - 1 >= at /\ i - 1 < at + n
        THEN src[from + (i - 1 - at) + 1]
        ELSE dst[i]]
\* A memset that stops one byte short.
memsetShort(dst, at, n) ==
    [i \in 1..Len(dst) |->
        IF i - 1 >= at /\ i - 1 < at + n - 1 THEN 0 ELSE dst[i]]
memset(dst, at, n) ==
    [i \in 1..Len(dst) |-> IF i - 1 >= at /\ i - 1 < at + n THEN 0 ELSE dst[i]]

(* ------------------------------ prepare -------------------------------- *)

\* A prepare that leaves the new buffer at its default volume.
VolumeAtCreation(level) == 0

\* if (dsoundsink->attenuation != 0) IDirectSoundBuffer_SetVolume (...):
\* the volume of the buffer just created, whose default is 0.
VolumeAfterPrepare(level) == IF level # 0 THEN level ELSE 0

\* gst_directsound_sink_prepare.  The base class acquires the ring buffer
\* only while it is not acquired and the streaming thread is not running.
Prepare ==
    /\ pc = "idle"
    /\ dsound_lock = "free"
    /\ pDSBSecondary # "live"
    /\ \E channels \in Channels, width \in Widths, rate \in Rates,
          created \in BOOLEAN :
        LET bps == BytesPerSample(channels, width)
            size == HalfSecond(nAvgBytesPerSec(rate, bps))
        IN  /\ created => CanCreate(size)
            /\ bytes_per_sample' = bps
            /\ buffer_size' = size
            /\ IF created
               THEN /\ pDSBSecondary' = "live"
                    /\ hwBytes' = [i \in 1..size |-> 0]
                    /\ hwCursor' = 0
                    /\ hwPlaying' = FALSE
                    /\ hwLost' = FALSE
                    /\ hwPending' = {}
                    /\ hwVolume' = VolumeAfterPrepare(attenuation)
               ELSE /\ pDSBSecondary' = "NULL"
                    /\ UNCHANGED hw
            /\ last' = [op |-> "prepare", ret |-> 0, ok |-> created,
                        rate |-> rate, bps |-> bps, fault |-> FALSE]
    /\ w' = Forget
    /\ UNCHANGED <<current_circular_offset, attenuation,
                   first_buffer_after_reset, dsound_lock, pc, lastRW>>

(* ----------------------------- unprepare ------------------------------- *)

\* gst_directsound_sink_unprepare: releases the buffer and keeps the
\* pointer.  The base class releases only an acquired ring buffer.  The
\* step returns the number of IDirectSoundBuffer_Release calls it made.
Unprepare ==
    /\ pc = "idle"
    /\ dsound_lock = "free"
    /\ pDSBSecondary # "released"
    /\ IF pDSBSecondary = "live"
       THEN /\ pDSBSecondary' = "released"
            /\ hwBytes' = <<>>
            /\ hwCursor' = 0
            /\ hwPlaying' = FALSE
            /\ hwLost' = FALSE
            /\ hwVolume' = 0
            /\ hwPending' = {}
       ELSE UNCHANGED <<pDSBSecondary, hw>>
    /\ last' = [Did("unprepare") EXCEPT
                   !.ret = IF pDSBSecondary = "live" THEN 1 ELSE 0]
    /\ w' = Forget
    /\ UNCHANGED <<buffer_size, current_circular_offset, bytes_per_sample,
                   attenuation, first_buffer_after_reset, dsound_lock, pc,
                   lastRW>>

(* ---------------------------- set_property ----------------------------- *)

\* gst_directsound_sink_set_property, PROP_ATTENUATION: the application
\* may call it at any time, and it takes no lock.  The pointer of a
\* released buffer is not NULL, so the call reaches
\* IDirectSoundBuffer_SetVolume on the released buffer; the step then
\* either returns, as here, or the process ends and takes no further step.
SetProperty ==
    /\ \E value \in Attenuations :
        IF value # attenuation
        THEN /\ attenuation' = value
             /\ hwVolume' = IF pDSBSecondary = "live" THEN value ELSE hwVolume
             /\ last' = [Did("set_property") EXCEPT
                            !.fault = (pDSBSecondary = "released")]
        ELSE /\ UNCHANGED <<attenuation, hwVolume>>
             /\ last' = Did("set_property")
    /\ w' = Forget
    /\ UNCHANGED <<pDSBSecondary, buffer_size, current_circular_offset,
                   bytes_per_sample, first_buffer_after_reset, dsound_lock,
                   hwBytes, hwCursor, hwPlaying, hwLost, hwPending, pc,
                   lastRW>>

(* ------------------------------- delay -------------------------------- *)

\* The queue with the comparison of cursor and offset made <=.
BytesInQueueLe(dwCurrentPlayCursor, offset, size) ==
    IF ~ULt(offset, dwCurrentPlayCursor)
    THEN offset - dwCurrentPlayCursor
    ELSE offset + (size - dwCurrentPlayCursor)

\* dwBytesInQueue of gst_directsound_sink_delay.
BytesInQueue(dwCurrentPlayCursor, offset, size) ==
    IF ULt(dwCurrentPlayCursor, offset)
    THEN offset - dwCurrentPlayCursor
    ELSE offset + (size - dwCurrentPlayCursor)

\* nNbSamplesInQueue = dwBytesInQueue / dsoundsink->bytes_per_sample.
SamplesOf(dwBytesInQueue) == dwBytesInQueue \div bytes_per_sample

\* What gst_directsound_sink_delay returns for a status, the outcome of
\* the position query and the cursor it gave.
SamplesInQueue(playing, positionOk, dwCurrentPlayCursor) ==
    IF playing /\ positionOk
    THEN SamplesOf(BytesInQueue(dwCurrentPlayCursor, current_circular_offset,
                                buffer_size))
    ELSE 0

\* gst_directsound_sink_delay: takes no lock, and queries the position
\* only of a playing buffer.
Delay ==
    /\ pDSBSecondary = "live"
    /\ \E positionOk \in (IF hwPlaying THEN BOOLEAN ELSE {TRUE}) :
        last' = [op |-> "delay", ok |-> positionOk, rate |-> 0, bps |-> 0,
                 ret |-> SamplesInQueue(hwPlaying, positionOk, hwCursor),
                 fault |-> FALSE]
    /\ w' = Forget
    /\ UNCHANGED <<session, hw, pc, lastRW>>

(* ------------------------------- write --------------------------------- *)

\* The buffers the base class hands to write: of each length, the two
\* strings whose bytes alternate.
Inputs(length) == {[i \in 1..length |-> (first + i) % 2] : first \in ByteVals}

\* The free space with the comparison of cursor and offset made <=.
FreeBufferSizeLe(dwCurrentPlayCursor, offset, size) ==
    IF ~ULt(offset, dwCurrentPlayCursor)
    THEN size - (offset - dwCurrentPlayCursor)
    ELSE dwCurrentPlayCursor - offset

\* dwFreeBufferSize at calculate_freesize.
FreeBufferSize(dwCurrentPlayCursor, offset, size) ==
    IF ULt(dwCurrentPlayCursor, offset)
    THEN size - (offset - dwCurrentPlayCursor)
    ELSE dwCurrentPlayCursor - offset

\* The wait with the comparison made >.
MustWaitLax(length, dwFreeBufferSize) == ULt(dwFreeBufferSize, length)

\* if (length >= dwFreeBufferSize)
MustWait(length, dwFreeBufferSize) == ~ULt(length, dwFreeBufferSize)

\* A second memcpy that reads from the start of data again.
SecondSourceStart(dwSizeBuffer1) == 0

\* The source of the second memcpy: (LPBYTE) data + dwSizeBuffer1.
SecondSource(dwSizeBuffer1) == dwSizeBuffer1

\* An advance written as an assignment, = for +=.
AdvancedAssign(offset, dwSizeBuffer1, dwSizeBuffer2) ==
    dwSizeBuffer1 + dwSizeBuffer2

\* current_circular_offset += dwSizeBuffer1 + dwSizeBuffer2, and then
\* current_circular_offset %= buffer_size.
Advanced(offset, dwSizeBuffer1, dwSizeBuffer2) ==
    offset + (dwSizeBuffer1 + dwSizeBuffer2)
Wrapped(offset) == offset % buffer_size

\* A play test that leaves out first_buffer_after_reset.
ShouldPlayAlways(dwStatus, first) == ~dwStatus.playing

\* if (!(dwStatus & DSBSTATUS_PLAYING) && first_buffer_after_reset == FALSE)
ShouldPlay(dwStatus, first) == ~dwStatus.playing /\ first = FALSE

\* A restore that leaves the offset where it was.
RestoredOffsetKept(dwStatus, offset) == offset

\* if (dwStatus & DSBSTATUS_BUFFERLOST) { Restore;
\* current_circular_offset = 0; }: the offset the call locks at.
RestoredOffset(dwStatus, offset) == IF dwStatus.lost THEN 0 ELSE offset

\* A call that does not wait for the mutex.
GST_DSOUND_LOCK_Skipped(lock) == TRUE

\* GST_DSOUND_LOCK (dsoundsink) returns once the mutex is free.
GST_DSOUND_LOCK(lock) == lock = "free"

\* An early return (from the wait) that leaves the mutex locked.
GST_DSOUND_UNLOCK_Missing(lock) == IF pc = "sleep" THEN lock ELSE "free"

\* GST_DSOUND_UNLOCK (dsoundsink).
GST_DSOUND_UNLOCK(lock) == "free"

\* IDirectSoundBuffer_GetStatus.
GetStatus == [playing |-> hwPlaying, lost |-> hwLost]

\* The call takes the lock, reads status and play cursor and, when the
\* buffer plays, makes the first pass through calculate_freesize.  A
\* failed position query skips the free-space check.  The frame keeps
\* dwCurrentPlayCursor only while the call can still read it.
WriteEnter ==
    /\ pc = "idle"
    /\ GST_DSOUND_LOCK(dsound_lock)
    /\ pDSBSecondary = "live"
    /\ \E length \in 0..buffer_size, positionOk \in BOOLEAN :
        \E data \in Inputs(length) :
            LET checks == positionOk /\ hwPlaying
                free == FreeBufferSize(hwCursor, current_circular_offset,
                                       buffer_size)
                waits == checks /\ MustWait(length, free)
            IN  /\ w' = [NoWrite EXCEPT
                           !.length = length,
                           !.data = data,
                           !.dwStatus = GetStatus,
                           !.dwCurrentPlayCursor =
                               IF waits THEN hwCursor ELSE 0,
                           !.offset0 = current_circular_offset,
                           !.playing0 = hwPlaying,
                           !.flag0 = first_buffer_after_reset,
                           !.checked = checks]
                /\ pc' = IF waits THEN "sleep" ELSE "copy"
    /\ dsound_lock' = "write"
    /\ last' = Did("step")
    /\ UNCHANGED <<pDSBSecondary, buffer_size, current_circular_offset,
                   bytes_per_sample, attenuation, first_buffer_after_reset,
                   hw, lastRW>>

\* Sleep (100) is over: the call reads the cursor and the status again and
\* either goes back to calculate_freesize or gives up.  A failed position
\* query leaves dwCurrentPlayCursor as it was.
WritePoll ==
    /\ pc = "sleep"
    /\ \E positionOk \in BOOLEAN :
        LET cursor == IF positionOk THEN hwCursor ELSE w.dwCurrentPlayCursor
            free == FreeBufferSize(cursor, current_circular_offset, buffer_size)
        IN  IF hwPlaying
            THEN /\ w' = [w EXCEPT !.dwCurrentPlayCursor =
                                       IF MustWait(w.length, free)
                                       THEN cursor ELSE 0,
                                   !.dwStatus = GetStatus,
                                   !.polled = TRUE]
                 /\ pc' = IF MustWait(w.length, free) THEN "sleep" ELSE "copy"
                 /\ last' = Did("step")
                 /\ UNCHANGED <<first_buffer_after_reset, dsound_lock, lastRW>>
            ELSE /\ w' = [w EXCEPT !.dwCurrentPlayCursor = 0,
                                   !.dwStatus = GetStatus,
                                   !.polled = TRUE]
                 /\ first_buffer_after_reset' = FALSE
                 /\ dsound_lock' = GST_DSOUND_UNLOCK(dsound_lock)
                 /\ pc' = "idle"
                 /\ last' = [Did("write") EXCEPT !.ret = 0]
                 /\ lastRW' = "write"
    /\ UNCHANGED <<pDSBSecondary, buffer_size, current_circular_offset,
                   bytes_per_sample, attenuation, hw>>

\* From the buffer-lost test to the addition of the sizes to the offset.
\* IDirectSoundBuffer_Restore may leave the buffer lost.
WriteCopy ==
    /\ pc = "copy"
    /\ \E restored \in (IF w.dwStatus.lost THEN BOOLEAN ELSE {FALSE}) :
        LET lost == hwLost /\ ~restored
            offset == RestoredOffset(w.dwStatus, current_circular_offset)
            ok == LockSucceeds(hwBytes, lost, offset, w.length)
            size1 == LockSize1(hwBytes, offset, w.length)
            size2 == LockSize2(hwBytes, offset, w.length)
            first == memcpy(hwBytes, offset, w.data, 0, size1)
            both == IF size2 > 0
                    THEN memcpy(first, 0, w.data, SecondSource(size1), size2)
                    ELSE first
            where == LockedPositions(hwBytes, offset, w.length)
        IN  /\ hwLost' = lost
            /\ IF ok
               THEN /\ hwBytes' = both
                    /\ hwPending' = hwPending \cup where
                    /\ current_circular_offset' = Advanced(offset, size1, size2)
                    /\ w' = [w EXCEPT !.locked = TRUE,
                                      !.lockOffset = offset,
                                      !.dwSizeBuffer1 = size1,
                                      !.dwSizeBuffer2 = size2,
                                      !.overwrote = (where \cap hwPending # {})]
               ELSE /\ current_circular_offset' = offset
                    /\ w' = [w EXCEPT !.lockOffset = offset]
                    /\ UNCHANGED <<hwBytes, hwPending>>
    /\ pc' = "wrap"
    /\ last' = Did("step")
    /\ UNCHANGED <<pDSBSecondary, buffer_size, bytes_per_sample, attenuation,
                   first_buffer_after_reset, dsound_lock, hwCursor, hwPlaying,
                   hwVolume, lastRW>>

\* From the reduction of the offset modulo the buffer size to the return:
\* unlock, play, clear the flag, release the lock, return length.
\* IDirectSoundBuffer_Play fails on a lost buffer.
WriteFinish ==
    /\ pc = "wrap"
    /\ current_circular_offset' =
           IF w.locked
           THEN Wrapped(current_circular_offset)
           ELSE current_circular_offset
    /\ IF ShouldPlay(w.dwStatus, first_buffer_after_reset)
       THEN /\ hwPlaying' = (hwPlaying \/ ~hwLost)
            /\ w' = [w EXCEPT !.played = TRUE]
       ELSE UNCHANGED <<hwPlaying, w>>
    /\ first_buffer_after_reset' = FALSE
    /\ dsound_lock' = GST_DSOUND_UNLOCK(dsound_lock)
    /\ pc' = "idle"
    /\ last' = [Did("write") EXCEPT !.ret = w.length]
    /\ lastRW' = "write"
    /\ UNCHANGED <<pDSBSecondary, buffer_size, bytes_per_sample, attenuation,
                   hwBytes, hwCursor, hwLost, hwVolume, hwPending>>

(* ------------------------------- reset --------------------------------- *)

\* gst_directsound_sink_reset, under the lock from start to end.
Reset ==
    /\ GST_DSOUND_LOCK(dsound_lock)
    /\ pDSBSecondary # "released"
    /\ IF pDSBSecondary = "live"
       THEN LET ok == LockSucceeds(hwBytes, hwLost, 0, buffer_size)
                dwSizeBuffer == LockSize1(hwBytes, 0, buffer_size)
            IN  /\ hwPlaying' = FALSE
                /\ hwCursor' = 0
                /\ current_circular_offset' = 0
                /\ hwBytes' = IF ok THEN memset(hwBytes, 0, dwSizeBuffer)
                                    ELSE hwBytes
                /\ hwPending' = IF ok THEN {} ELSE hwPending
                /\ UNCHANGED <<hwLost, hwVolume>>
       ELSE UNCHANGED <<current_circular_offset, hw>>
    /\ first_buffer_after_reset' = TRUE
    /\ last' = Did("reset")
    /\ lastRW' = "reset"
    /\ w' = Forget
    /\ UNCHANGED <<pDSBSecondary, buffer_size, bytes_per_sample, attenuation,
                   dsound_lock, pc>>

(* ----------------------------- the hardware ---------------------------- *)

\* A playing buffer renders the byte under the play cursor and moves on,
\* looping at the end of the buffer.
CursorAdvance ==
    /\ pDSBSecondary = "live"
    /\ hwPlaying
    /\ hwCursor' = (hwCursor + 1) % Len(hwBytes)
    /\ hwPending' = hwPending \ {hwCursor}
    /\ last' = Did("step")
    /\ w' = IF pc = "idle" THEN NoWrite ELSE [w EXCEPT !.moved = TRUE]
    /\ UNCHANGED <<session, hwBytes, hwPlaying, hwLost, hwVolume, pc, lastRW>>

\* The buffer memory is lost (another application takes the device): the
\* buffer stops and reports DSBSTATUS_BUFFERLOST until it is restored.
LoseBuffer ==
    /\ pDSBSecondary = "live"
    /\ ~hwLost
    /\ hwLost' = TRUE
    /\ hwPlaying' = FALSE
    /\ hwPending' = {}
    /\ last' = Did("step")
    /\ w' = Forget
    /\ UNCHANGED <<session, hwBytes, hwCursor, hwVolume, pc, lastRW>>

Next ==
    \/ Prepare
    \/ Unprepare
    \/ Delay
    \/ WriteEnter
    \/ WritePoll
    \/ WriteCopy
    \/ WriteFinish
    \/ Reset
    \/ CursorAdvance
    \/ LoseBuffer

Spec == Init /\ [][Next]_vars

\* The streaming thread runs: a write that can take its next step takes
\* it, and a poll that keeps finding room sooner or later goes on to copy.
\* The sound card runs: the play cursor of a playing buffer keeps moving.
FairSpec ==
    /\ Spec
    /\ WF_vars(WritePoll)
    /\ SF_vars(WritePoll /\ pc' = "copy")
    /\ WF_vars(WriteCopy)
    /\ WF_vars(WriteFinish)
    /\ WF_vars(CursorAdvance)

\* The calls that create, use and release the buffer handle outside the
\* streaming thread, with the attenuation property.
HandleNext ==
    \/ Prepare
    \/ Unprepare
    \/ SetProperty
    \/ Reset
    \/ Delay

HandleSpec == Init /\ [][HandleNext]_vars

(* ------------------------------- claims -------------------------------- *)

\* C1: between calls the write offset satisfies
\* 0 <= current_circular_offset < buffer_size, whatever formats prepare
\* was given.
C1_OffsetInRange ==
    pc = "idle" =>
        current_circular_offset >= 0 /\ current_circular_offset < buffer_size

\* C2: no write stores data over a position that holds written bytes the
\* play cursor has not yet passed.
C2_NeverOverwritesUnplayed == ~w.overwrote

\* The free space as the claims state it, for a play cursor.
FreeSpace(cursor) ==
    IF cursor < current_circular_offset
    THEN buffer_size - (current_circular_offset - cursor)
    ELSE cursor - current_circular_offset

\* A write call passes from its free-space check to the copy, or gives up.
Proceeds == pc = "sleep" /\ pc' = "copy"
Abandons == pc = "sleep" /\ pc' = "idle"
Enters == pc = "idle" /\ pc' # "idle"

\* What holds of a waiting write whichever way the claim is read: it
\* copies nothing, it leaves only for a reason, and giving up returns 0.
C3_Waiting ==
    /\ pc = "sleep" /\ pc' = "sleep" =>
           hwBytes' = hwBytes
           /\ current_circular_offset' = current_circular_offset
    /\ Abandons =>
           ~hwPlaying /\ last'.op = "write" /\ last'.ret = 0
           /\ hwBytes' = hwBytes
           /\ current_circular_offset' = current_circular_offset

\* The steps C3 allows as it is stated: the wait begins at length >= free
\* space and ends at free space >= length.
C3_StatedSteps ==
    /\ C3_Waiting
    /\ Enters /\ hwPlaying /\ w'.length >= FreeSpace(hwCursor) => pc' = "sleep"
    /\ Proceeds => hwPlaying /\ FreeSpace(hwCursor) >= w.length
    /\ pc' = "sleep" /\ w'.polled =>
           w'.dwStatus.playing /\ FreeSpace(w'.dwCurrentPlayCursor) < w'.length

C3_BlocksUntilRoomSteps ==
    /\ C3_Waiting
    /\ Enters /\ w'.checked /\ w'.length >= FreeSpace(hwCursor) => pc' = "sleep"
    /\ Enters /\ hwPlaying /\ pc' = "copy" /\ w'.checked =>
           FreeSpace(hwCursor) > w'.length
    /\ Proceeds => hwPlaying /\ FreeSpace(hwCursor) > w.length
    /\ pc' = "sleep" =>
           w'.dwStatus.playing /\ FreeSpace(w'.dwCurrentPlayCursor) <= w'.length

C4_OffsetAdvancesByReturn ==
    last.op = "write" =>
        current_circular_offset = (w.offset0 + last.ret) % buffer_size

\* C5: after a successful write of N bytes locked at an offset o with
\* o + N > buffer_size, the two region sizes add up to N and the byte at
\* (o + i) mod buffer_size is input byte i, for every i < N.
C5_WrapKeepsOrder ==
    (pc = "wrap" \/ last.op = "write")
    /\ w.locked /\ w.lockOffset + w.length > buffer_size =>
        /\ w.dwSizeBuffer1 + w.dwSizeBuffer2 = w.length
        /\ \A i \in 0..(w.length - 1) :
               hwBytes[((w.lockOffset + i) % buffer_size) + 1] = w.data[i + 1]

\* C5's case: a write that returned after a lock that wrapped.
C5_Witness ==
    /\ last.op = "write" /\ w.locked
    /\ w.lockOffset + w.length > buffer_size
    /\ w.dwSizeBuffer1 > 0 /\ w.dwSizeBuffer2 > 0

\* C6: a write calls play exactly when the status it read on entry was not
\* playing and first_buffer_after_reset was false; the first write after a
\* reset returns its length without a play call; the flag is false after
\* every write and true exactly when reset was the last of reset and write.
C6_PlayUnlessFirstAfterReset ==
    /\ last.op = "write" => (w.played <=> (~w.playing0 /\ ~w.flag0))
    /\ last.op = "write" /\ w.flag0 => last.ret = w.length /\ ~w.played
    /\ last.op = "write" => ~first_buffer_after_reset
    /\ first_buffer_after_reset <=> (lastRW = "reset")

\* C6's case: the first write after a reset has returned.
C6_Witness ==
    /\ last.op = "write" /\ w.flag0 /\ w.length > 0
    /\ last.ret = w.length /\ ~w.played /\ ~hwPlaying

\* What every reset of a prepared sink leaves, and the bytes it leaves
\* when `zeroed` holds.
AfterReset(zeroed) ==
    last.op = "reset" /\ pDSBSecondary = "live" =>
        /\ current_circular_offset = 0
        /\ SamplesInQueue(hwPlaying, TRUE, hwCursor) = 0
        /\ ~hwPlaying /\ hwCursor = 0
        /\ first_buffer_after_reset
        /\ zeroed => \A i \in 1..Len(hwBytes) : hwBytes[i] = 0

\* A reset that follows a reset changes nothing: no step leads from the
\* state a reset left to a different state a reset left.
ResetTwice ==
    ~(last.op = "reset" /\ last'.op = "reset" /\ pDSBSecondary = "live")

\* C7 as stated: after reset the offset is 0, the queued samples are 0,
\* the buffer is stopped at cursor 0, every byte is zero and the flag is
\* set; a second reset changes nothing.
C7_Stated == AfterReset(TRUE)

\* C7 as amended: the same, with every byte zero when the buffer is not
\* lost (reset's lock of a lost buffer fails and reset fills nothing).
C7_ResetRewinds == [] AfterReset(~hwLost) /\ [][ResetTwice]_vars

\* C7's case: a reset of a prepared sink.
C7_Witness ==
    /\ last.op = "reset" /\ pDSBSecondary = "live" /\ ~hwLost
    /\ lastRW = "reset" /\ first_buffer_after_reset

\* C8: delay returns 0 when the buffer is not playing or the position query
\* fails, and otherwise floor(queued / bytes_per_sample) with queued =
\* offset - cursor if cursor < offset, else offset + (buffer_size - cursor).
C8_DelayFormula ==
    last.op = "delay" =>
        last.ret =
            IF ~hwPlaying \/ ~last.ok
            THEN 0
            ELSE (IF hwCursor < current_circular_offset
                  THEN current_circular_offset - hwCursor
                  ELSE current_circular_offset + (buffer_size - hwCursor))
                 \div bytes_per_sample

\* C8's case: a delay query of a playing buffer whose cursor is not behind
\* the offset.
C8_Witness ==
    /\ last.op = "delay" /\ hwPlaying /\ last.ok
    /\ hwCursor >= current_circular_offset /\ last.ret > 0

\* What delay returns right after the write that has just returned, and
\* what it returned right before that write (the cursor has not moved).
DelayAfter == SamplesInQueue(hwPlaying, TRUE, hwCursor)
DelayBefore ==
    IF w.playing0
    THEN SamplesOf(BytesInQueue(hwCursor, w.offset0, buffer_size))
    ELSE 0

\* C9 as stated: a successful write of L bytes during which the cursor
\* does not move raises delay by L / bytes_per_sample (read here for a
\* buffer that is not lost when the write returns).
C9_Stated ==
    last.op = "write" /\ w.locked /\ ~w.moved /\ ~hwLost =>
        DelayAfter = DelayBefore + (w.length \div bytes_per_sample)

\* C9 as amended: it does so when L is a multiple of bytes_per_sample, the
\* buffer plays when the write returns, and the write either passed the
\* free-space check of a playing buffer or started a stopped buffer whose
\* offset was at the play cursor.
C9_DelayGrowsByWrite ==
    /\ last.op = "write" /\ w.locked /\ ~w.moved
    /\ w.length % bytes_per_sample = 0
    /\ hwPlaying
    /\ \/ w.playing0 /\ w.checked
       \/ ~w.playing0 /\ w.lockOffset = w.offset0 /\ w.offset0 = hwCursor
    => DelayAfter = DelayBefore + (w.length \div bytes_per_sample)

\* C9's case: a write of whole samples to a playing buffer has returned.
C9_Witness ==
    /\ last.op = "write" /\ w.locked /\ ~w.moved
    /\ w.playing0 /\ w.checked /\ hwPlaying
    /\ w.length > 0 /\ w.length % bytes_per_sample = 0
    /\ w.dwSizeBuffer2 > 0

\* C10: after prepare, buffer_size is floor(rate * bytes_per_sample / 2)
\* over the integers.  The product is compared in 16-bit halves: its high
\* half, not reduced to 16 bits, is buffer_size \div 2^15.
C10_ExactCapacity ==
    last.op = "prepare" =>
        LET lo == (last.rate % 65536) * last.bps
            hi == (last.rate \div 65536) * last.bps + (lo \div 65536)
        IN  /\ buffer_size \div 32768 = hi
            /\ buffer_size % 32768 = (lo % 65536) \div 2

\* C11: whenever a buffer is held, its volume is the attenuation set last.
C11_VolumeIsAttenuation ==
    pDSBSecondary = "live" => hwVolume = attenuation

\* C11's case: an attenuation set while no buffer existed has been applied
\* by the prepare that followed.
C11_Witness ==
    /\ last.op = "prepare" /\ last.ok /\ pDSBSecondary = "live"
    /\ attenuation = -5000 /\ hwVolume = -5000

\* A write call returns after its lock attempt.
Returns == pc = "wrap" /\ pc' = "idle"

\* C12: a write whose IDirectSoundBuffer_Lock fails returns 0 and leaves
\* the offset where it was when the call began.
C12_FailedLockReturnsZero ==
    [][Returns /\ ~w.locked =>
           last'.ret = 0 /\ current_circular_offset' = w.offset0]_vars

\* C13: a write of length 0 never waits, and when it has returned it has
\* returned 0, locked and copied nothing, made no play call and left the
\* offset and first_buffer_after_reset as they were.
C13_ZeroLengthIsNoOp ==
    /\ pc = "sleep" => w.length # 0
    /\ last.op = "write" /\ w.length = 0 =>
           /\ last.ret = 0
           /\ ~w.locked
           /\ current_circular_offset = w.offset0
           /\ ~w.played
           /\ first_buffer_after_reset = w.flag0

\* No reset runs while a write holds the lock: a write in progress holds
\* it, and the step that led to a state inside a write is not a reset.
WriteExcludesReset ==
    pc # "idle" => dsound_lock = "write" /\ last.op # "reset"

\* From its free-space check to its lock attempt a write sees one offset
\* and one first_buffer_after_reset: they keep the values they had when
\* the call began, and the call locks at that offset unless it read
\* DSBSTATUS_BUFFERLOST.
CheckedOffsetIsCopied ==
    /\ pc' \in {"sleep", "copy"} =>
           /\ current_circular_offset' = w'.offset0
           /\ first_buffer_after_reset' = w'.flag0
    /\ pc = "copy" /\ pc' = "wrap" /\ ~w.dwStatus.lost =>
           w'.lockOffset = w.offset0

\* C14: write and reset exclude each other for the whole of each call,
\* the waits of write included, so the offset a write checks is the
\* offset it copies to and a reset takes effect only once the write
\* has returned.
C14_WriteAndResetExclude ==
    []WriteExcludesReset /\ [][CheckedOffsetIsCopied]_vars

\* C14's case: a write waits, holding the lock, after a poll.
C14_Witness == pc = "sleep" /\ w.polled /\ dsound_lock = "write"

\* C15: no call reaches a method of an absent or released buffer, a
\* buffer is released at most once, and unprepare without a buffer makes
\* no DirectSound call.
C15_NoUseAfterRelease ==
    /\ ~last.fault
    /\ last.op = "unprepare" /\ last.ret > 0 => pDSBSecondary = "released"

\* C16: a write that gives up because a poll finds the buffer stopped
\* returns 0, copies nothing, leaves the offset, calls no play and
\* releases the lock.
C16_AbandonedWrite ==
    [][Abandons =>
           /\ last'.op = "write" /\ last'.ret = 0
           /\ hwBytes' = hwBytes /\ ~w'.locked
           /\ current_circular_offset' = w.offset0
           /\ hwPlaying' = hwPlaying /\ ~w'.played
           /\ dsound_lock' = "free"]_vars

\* C16's case: a write has returned from its wait because playback had
\* stopped.
C16_Witness ==
    /\ last.op = "write" /\ last.ret = 0 /\ w.length > 0
    /\ w.polled /\ ~w.dwStatus.playing

\* C17: a write that read DSBSTATUS_BUFFERLOST and then locked the buffer
\* locked it at position 0, put its N bytes there and left the offset at
\* N mod buffer_size, whatever the offset was before.
C17_LostBufferRestarts ==
    (pc = "wrap" \/ last.op = "write") /\ w.dwStatus.lost /\ w.locked =>
        /\ w.lockOffset = 0
        /\ \A i \in 1..w.length : hwBytes[i] = w.data[i]
        /\ current_circular_offset =
               IF pc = "wrap" THEN w.length ELSE w.length % buffer_size

\* C17's case: such a write, begun at an offset other than 0, has returned.
C17_Witness ==
    /\ last.op = "write" /\ w.dwStatus.lost /\ w.locked
    /\ w.offset0 > 0 /\ w.length > 0

\* C18: every write call returns, after a bounded wait, by completing or
\* by returning 0, so the lock it holds is released.
C18_WriteReturns == (pc # "idle") ~> (pc = "idle" /\ dsound_lock = "free")

\* C19: whatever a write or a reset is doing at the time, delay returns a
\* value from 0 to buffer_size / bytes_per_sample.
C19_DelayInRange ==
    last.op = "delay" =>
        last.ret >= 0 /\ last.ret <= buffer_size \div bytes_per_sample

\* C20: for every play cursor and offset inside the buffer, the free
\* space write computes and the queue delay computes add up to
\* buffer_size; with the cursor at the offset they are 0 and buffer_size.
C20_FreePlusQueued ==
    pDSBSecondary = "live" =>
        \A cursor \in 0..(buffer_size - 1), offset \in 0..(buffer_size - 1) :
            /\ FreeBufferSize(cursor, offset, buffer_size)
                   + BytesInQueue(cursor, offset, buffer_size) = buffer_size
            /\ cursor = offset =>
                   /\ FreeBufferSize(cursor, offset, buffer_size) = 0
                   /\ BytesInQueue(cursor, offset, buffer_size) = buffer_size

\* C20's case: with the play cursor at the offset of a playing buffer, a
\* write has found no free space and waits, and delay reports a full
\* buffer.
C20_Witness ==
    /\ last.op = "delay" /\ last.ok /\ hwPlaying
    /\ pc = "sleep" /\ w.length = 0
    /\ hwCursor = current_circular_offset
    /\ last.ret * bytes_per_sample = buffer_size

====
